---------------------------- MODULE Spec2Model ----------------------------
(***************************************************************************)
(* Load lifecycle of the ModelViewer component                             *)
(* (src/src/components/ModelList.tsx, lines 443-838) as driven by          *)
(* App.handleModelSelect (src/src/App.tsx, lines 96-99).                   *)
(*                                                                         *)
(* One run of fetchModel is identified by its run number 1..numRuns (the   *)
(* code has no such number: it is the order in which the modelId effect    *)
(* started the runs).  An object URL is identified by the run that created *)
(* it, a metadata value by the run that fetched it.                        *)
(*                                                                         *)
(* React semantics used:                                                   *)
(*  - a state setter called with the current value renders nothing;        *)
(*  - an effect with deps [modelId] runs after the render that changed     *)
(*    modelId has been committed; the cleanup of the previous effect runs  *)
(*    first, with the variables of the render that created it;             *)
(*  - pending effects are flushed before any later update is rendered;     *)
(*  - the setters called between two awaits are applied together;          *)
(*  - setters of an unmounted component do nothing.                        *)
(***************************************************************************)
EXTENDS Integers, FiniteSets, Sequences, TLC

MaxRuns == 3      \* fetchModel runs explored
NumIds == 2       \* distinct model ids the caller can select

Null == 0
Ids == 1..NumIds
Runs == 1..MaxRuns
NoError == <<>>

VARIABLES
  mounted,        \* the ModelViewer instance is mounted
  modelId,        \* prop modelId of the last render (App.activeModelId)
  loading,        \* useState loading
  error,          \* useState error: NoError or <<run, phase>>
  modelUrl,       \* useState modelUrl: Null or the run that created the URL
  modelInfo,      \* useState modelInfo: Null or the run that fetched it
  effectPending,  \* a render with a new modelId is committed, effect not run
  hasCleanup,     \* the last effect run returned a cleanup function
  cleanupUrl,     \* modelUrl as captured by that cleanup's closure
  numRuns,        \* fetchModel runs started so far
  runId,          \* runId[r]: modelId captured by run r
  pc,             \* pc[r]: "none", "details", "download", "done", "failed"
  issued,         \* issued[r]: HTTP requests run r has sent
  created,        \* runs whose URL.createObjectURL has been called
  revoked,        \* revoked[r]: URL.revokeObjectURL calls on run r's URL
  unservedCall    \* a select call made from Loaded/Error/Idle with a
                  \* non-null id has not been followed by a fetchModel run

vars == <<mounted, modelId, loading, error, modelUrl, modelInfo,
          effectPending, hasCleanup, cleanupUrl, numRuns, runId, pc,
          issued, created, revoked, unservedCall>>

viewerState == <<loading, error, modelUrl, modelInfo>>
effectState == <<effectPending, hasCleanup, cleanupUrl>>

(***************************************************************************)
(* State of the other components.  Each component has its own              *)
(* specification below; the actions of one leave the others unchanged.     *)
(***************************************************************************)
VARIABLES
  canvas,         \* the Canvas (SceneSetup and Model) is mounted
  crashed,        \* a render of Model has thrown; the tree is gone
  urlProp,        \* Model prop url (ModelViewer.modelUrl)
  fileFormat,     \* Model prop fileFormat (modelInfo.file_format)
  viewMode,       \* ModelViewer useState viewMode
  objectColor,    \* ModelViewer useState objectColor
  autoRotate,     \* ModelViewer useState autoRotate
  model,          \* Model useState model is non-null
  modelError,     \* Model useState error: "none" or the failure
  children,       \* children of modelRef.current: with or without a mesh
  loads,          \* loads[l]: the l-th loader.load call and its closure
  numLoads,       \* loader.load calls made so far
  framedOn        \* what the camera framing was last computed from

modelVars == <<canvas, crashed, urlProp, fileFormat, viewMode, objectColor,
               autoRotate, model, modelError, children, loads, numLoads, framedOn>>

VARIABLES
  nBox,           \* bounding box of the parsed geometry
  nLoader,        \* loader whose success callback runs
  nDone,          \* the callback has positioned and scaled the object
  nOut,           \* position and scale of the object
  nErr            \* Model error state around the callback

normVars == <<nBox, nLoader, nDone, nOut, nErr>>

VARIABLES
  models,         \* App useState models: ids in list order
  activeModelId,  \* App useState activeModelId
  isUploading,    \* App useState isUploading
  uploadError,    \* App useState uploadError
  files,          \* e.target.files of the last change or drop event
  inputValue,     \* files held by the file input (fileInputRef.current)
  events,         \* change and drop events handled so far
  server,         \* ids the server stores, in list order
  nextId,         \* id the server gives to the next created model
  calls,          \* async calls of App that have not finished
  numCalls,       \* async calls of App started so far
  posts           \* POST requests sent so far

appVars == <<models, activeModelId, isUploading, uploadError, files,
             inputValue, events,
             server, nextId, calls, numCalls, posts>>

VARIABLES
  fBox,           \* bounding box of the meshes the framing effect found
  fCam,           \* camera position and controls target
  fDone           \* the framing effect has run

frameVars == <<fBox, fCam, fDone>>

otherVars == <<modelVars, normVars, appVars, frameVars>>

\* Render with the loading test moved before the modelId test.
RenderLoadingFirst(id, ld, err, url, info) ==
  IF ld THEN "Loading"
  ELSE IF id = Null THEN "Idle"
  ELSE IF err # NoError THEN "Error"
  ELSE IF url # Null /\ info # Null THEN "Canvas"
  ELSE "NoData"

(***************************************************************************)
(* The render function of ModelViewer: which of its five outputs is shown. *)
(***************************************************************************)
Render(id, ld, err, url, info) ==
  IF id = Null THEN "Idle"
  ELSE IF ld THEN "Loading"
  ELSE IF err # NoError THEN "Error"
  ELSE IF url # Null /\ info # Null THEN "Canvas"
  ELSE "NoData"

View == IF mounted THEN Render(modelId, loading, error, modelUrl, modelInfo)
        ELSE "Unmounted"

\* What the rendered output contains.
ShownSpinner == View = "Loading"
ShownError == IF View = "Error" THEN error ELSE NoError
ShownUrl == IF View = "Canvas" THEN modelUrl ELSE Null
ShownInfo == IF View \in {"Canvas", "NoData"} THEN modelInfo ELSE Null

Init ==
  /\ mounted = TRUE
  /\ modelId = Null
  /\ loading = FALSE
  /\ error = NoError
  /\ modelUrl = Null
  /\ modelInfo = Null
  /\ effectPending = FALSE
  /\ hasCleanup = FALSE
  /\ cleanupUrl = Null
  /\ numRuns = 0
  /\ runId = [r \in Runs |-> Null]
  /\ pc = [r \in Runs |-> "none"]
  /\ issued = [r \in Runs |-> 0]
  /\ created = {}
  /\ revoked = [r \in Runs |-> 0]
  /\ unservedCall = FALSE


(***************************************************************************)
(* The cleanup returned by the modelId effect: revokes the modelUrl its    *)
(* closure captured, i.e. the value of the render that created the effect. *)
(***************************************************************************)
AfterCleanup ==
  IF hasCleanup /\ cleanupUrl # Null
  THEN [revoked EXCEPT ![cleanupUrl] = @ + 1]
  ELSE revoked

(***************************************************************************)
(* App calls setActiveModelId(id) (handleModelSelect, or null when the     *)
(* last model is deleted).  With the current value React renders nothing   *)
(* and no effect runs.  With another value ModelViewer is rendered with    *)
(* the new prop and its old state, and the modelId effect is scheduled.    *)
(***************************************************************************)
NotesCall(id) ==
  IF id # Null /\ View \in {"Canvas", "Error", "Idle"} THEN TRUE
  ELSE unservedCall

SelectSame(id) ==
  /\ mounted /\ ~effectPending
  /\ id = modelId
  /\ unservedCall' = NotesCall(id)
  /\ UNCHANGED <<mounted, modelId, viewerState, effectState, numRuns, runId,
                 pc, issued, created, revoked>>
  /\ UNCHANGED otherVars

SelectNew(id) ==
  /\ mounted /\ ~effectPending
  /\ id # modelId
  /\ id # Null => numRuns < MaxRuns
  /\ modelId' = id
  /\ effectPending' = TRUE
  /\ unservedCall' = NotesCall(id)
  /\ UNCHANGED <<mounted, viewerState, hasCleanup, cleanupUrl, numRuns,
                 runId, pc, issued, created, revoked>>
  /\ UNCHANGED otherVars

(***************************************************************************)
(* The modelId effect, run after the commit: cleanup of the previous       *)
(* effect, then the body.  With a null modelId the body clears modelUrl    *)
(* and modelInfo and returns no cleanup.  Otherwise it starts fetchModel   *)
(* up to its first await and returns the cleanup.                          *)
(***************************************************************************)
EffectNull ==
  /\ mounted /\ effectPending
  /\ modelId = Null
  /\ revoked' = AfterCleanup
  /\ modelUrl' = Null
  /\ modelInfo' = Null
  /\ effectPending' = FALSE
  /\ hasCleanup' = FALSE
  /\ cleanupUrl' = Null
  /\ UNCHANGED <<mounted, modelId, loading, error, numRuns, runId, pc,
                 issued, created, unservedCall>>
  /\ UNCHANGED otherVars

EffectFetch ==
  /\ mounted /\ effectPending
  /\ modelId # Null
  /\ revoked' = AfterCleanup
  /\ numRuns' = numRuns + 1
  /\ runId' = [runId EXCEPT ![numRuns + 1] = modelId]
  /\ loading' = TRUE
  /\ error' = NoError
  /\ pc' = [pc EXCEPT ![numRuns + 1] = "details"]
  /\ issued' = [issued EXCEPT ![numRuns + 1] = 1]
  /\ effectPending' = FALSE
  /\ hasCleanup' = TRUE
  /\ cleanupUrl' = modelUrl
  /\ unservedCall' = FALSE
  /\ UNCHANGED <<mounted, modelId, modelUrl, modelInfo, created>>
  /\ UNCHANGED otherVars

\* catch and finally of fetchModel with a catch block that sends the failed
\* request once more.
FetchFailedRetry(r, phase) ==
  /\ pc' = [pc EXCEPT ![r] = "failed"]
  /\ issued' = [issued EXCEPT ![r] = @ + 1]
  /\ IF mounted
     THEN /\ error' = <<r, phase>>
          /\ loading' = FALSE
     ELSE UNCHANGED <<error, loading>>
  /\ UNCHANGED <<mounted, modelId, modelUrl, modelInfo, effectState,
                 numRuns, runId, created, revoked, unservedCall>>
  /\ UNCHANGED otherVars

(***************************************************************************)
(* catch and finally of fetchModel: setError, setLoading(false); the run   *)
(* ends and sends nothing more.                                            *)
(***************************************************************************)
FetchFailed(r, phase) ==
  /\ pc' = [pc EXCEPT ![r] = "failed"]
  /\ IF mounted
     THEN /\ error' = <<r, phase>>
          /\ loading' = FALSE
     ELSE UNCHANGED <<error, loading>>
  /\ UNCHANGED <<mounted, modelId, modelUrl, modelInfo, effectState,
                 numRuns, runId, issued, created, revoked, unservedCall>>
  /\ UNCHANGED otherVars

(***************************************************************************)
(* The details response of run r arrives.  ok: setModelInfo and the        *)
(* download request is sent.  Not ok (or json() rejects): catch, finally.  *)
(***************************************************************************)
DetailsOk(r) ==
  /\ ~effectPending
  /\ pc[r] = "details"
  /\ modelInfo' = IF mounted THEN r ELSE modelInfo
  /\ pc' = [pc EXCEPT ![r] = "download"]
  /\ issued' = [issued EXCEPT ![r] = @ + 1]
  /\ UNCHANGED <<mounted, modelId, loading, error, modelUrl, effectState,
                 numRuns, runId, created, revoked, unservedCall>>
  /\ UNCHANGED otherVars

DetailsFail(r) ==
  /\ ~effectPending
  /\ pc[r] = "details"
  /\ FetchFailed(r, "details")

(***************************************************************************)
(* The download response of run r arrives.  ok: createObjectURL,           *)
(* setModelUrl, finally setLoading(false).  Not ok (or blob() rejects):    *)
(* catch, finally.                                                         *)
(***************************************************************************)
DownloadOk(r) ==
  /\ ~effectPending
  /\ pc[r] = "download"
  /\ created' = created \cup {r}
  /\ pc' = [pc EXCEPT ![r] = "done"]
  /\ IF mounted
     THEN /\ modelUrl' = r
          /\ loading' = FALSE
     ELSE UNCHANGED <<modelUrl, loading>>
  /\ UNCHANGED <<mounted, modelId, error, modelInfo, effectState, numRuns,
                 runId, issued, revoked, unservedCall>>
  /\ UNCHANGED otherVars

DownloadFail(r) ==
  /\ ~effectPending
  /\ pc[r] = "download"
  /\ FetchFailed(r, "download")

\* The Clear Error button, rendered in the error view only.
clearError ==
  /\ ~effectPending
  /\ View = "Error"
  /\ error' = NoError
  /\ UNCHANGED <<mounted, modelId, loading, modelUrl, modelInfo, effectState,
                 numRuns, runId, pc, issued, created, revoked, unservedCall>>
  /\ UNCHANGED otherVars

\* The viewer is torn down: the cleanup of the last effect runs.
Unmount ==
  /\ mounted /\ ~effectPending
  /\ mounted' = FALSE
  /\ revoked' = AfterCleanup
  /\ hasCleanup' = FALSE
  /\ cleanupUrl' = Null
  /\ UNCHANGED <<modelId, viewerState, effectPending, numRuns, runId, pc,
                 issued, created, unservedCall>>
  /\ UNCHANGED otherVars

Next ==
  \/ \E id \in Ids \cup {Null} : SelectSame(id)
  \/ \E id \in Ids \cup {Null} : SelectNew(id)
  \/ EffectNull
  \/ EffectFetch
  \/ \E r \in Runs : DetailsOk(r)
  \/ \E r \in Runs : DetailsFail(r)
  \/ \E r \in Runs : DownloadOk(r)
  \/ \E r \in Runs : DownloadFail(r)
  \/ clearError
  \/ Unmount

TypeOK ==
  /\ mounted \in BOOLEAN /\ loading \in BOOLEAN
  /\ modelId \in Ids \cup {Null}
  /\ error \in {NoError} \cup (Runs \X {"details", "download"})
  /\ modelUrl \in Runs \cup {Null} /\ modelInfo \in Runs \cup {Null}
  /\ numRuns \in 0..MaxRuns
  /\ \A r \in Runs : pc[r] \in {"none", "details", "download", "done", "failed"}
  /\ \A r \in Runs : issued[r] \in 0..2 /\ revoked[r] \in 0..MaxRuns

(***************************************************************************)
(* Vocabulary of the properties.                                           *)
(***************************************************************************)
Terminal(r) == pc[r] \in {"done", "failed"}
Finishes(r) == ~Terminal(r) /\ Terminal(r)'
Advances(r) == pc'[r] # pc[r] /\ pc[r] # "none"
Fails(r) == pc[r] # "failed" /\ pc'[r] = "failed"
Unreleased == {h \in created : revoked[h] = 0}

(***************************************************************************)
(* C1: once a newer run has been issued, a step of the older run (the      *)
(* arrival of its metadata or of its bytes) never makes that run's         *)
(* metadata or URL part of what is shown; and when every run has           *)
(* completed, what is shown comes from the newest run only.                *)
(***************************************************************************)
C1_SettledOnNewest ==
  (mounted /\ ~effectPending /\ modelId # Null /\ numRuns > 0
     /\ \A r \in 1..numRuns : Terminal(r))
  => /\ ShownUrl \in {Null, numRuns}
     /\ ShownInfo \in {Null, numRuns}
     /\ ShownError # NoError => ShownError[1] = numRuns

C1_StaleResultNeverShown ==
  [][ /\ \A r \in Runs :
           (r < numRuns /\ Advances(r))
           => /\ ShownUrl' = r => ShownUrl = r
              /\ ShownInfo' = r => ShownInfo = r
      /\ C1_SettledOnNewest' ]_vars

(***************************************************************************)
(* C2: the failure of a run that a newer run has superseded changes        *)
(* neither the error state nor any other state of the viewer.              *)
(***************************************************************************)
C2_StaleFailureDiscarded ==
  [][ \A r \in Runs :
        (r < numRuns /\ Fails(r))
        => UNCHANGED <<error, loading, modelUrl, modelInfo>> ]_vars

(***************************************************************************)
(* C3: whenever a model is displayed, its metadata and its URL come from   *)
(* the same run, and that run fetched the currently requested modelId.     *)
(***************************************************************************)
C3_ConsistentLoadState ==
  View = "Canvas" => /\ modelUrl = modelInfo
                     /\ runId[modelInfo] = modelId

(***************************************************************************)
(* C4: a request with a non-null id never shows the previous model under   *)
(* the new id, and the Loading state ends only by the newest run's own     *)
(* outcome or by a newer request (or teardown).                            *)
(***************************************************************************)
C4_LoadingUntilOwnOutcome ==
  [][ /\ (effectPending' /\ modelId' # Null) => View' # "Canvas"
      /\ (effectPending /\ modelId # Null /\ ~effectPending')
         => View' = "Loading"
      /\ (View = "Loading" /\ View' # "Loading")
         => \/ numRuns > 0 /\ Finishes(numRuns)
            \/ modelId' # modelId
            \/ ~mounted' ]_vars

(***************************************************************************)
(* C5: after the newest run has failed, and until another request is made, *)
(* the URL and the metadata of an earlier run are never shown.             *)
(***************************************************************************)
C5_FailureReplacesLoaded ==
  (mounted /\ ~effectPending /\ modelId # Null /\ numRuns > 0
     /\ pc[numRuns] = "failed")
  => /\ ShownUrl = Null
     /\ ShownInfo \in {Null, numRuns}

(***************************************************************************)
(* C6: no URL is revoked twice, and once the viewer is torn down and every *)
(* run has completed, every created URL has been revoked.                  *)
(***************************************************************************)
C6_ReleasedExactlyOnce ==
  /\ \A h \in Runs : revoked[h] <= 1
  /\ (~mounted /\ \A r \in 1..numRuns : Terminal(r))
     => \A h \in created : revoked[h] = 1

(***************************************************************************)
(* C7: the effect run for a new request revokes the URL held until then,   *)
(* the URL a superseded run creates is revoked at once, and at most one    *)
(* created URL is unrevoked at any time.                                   *)
(***************************************************************************)
C7_ReleasedWhenSuperseded ==
  [][ /\ (effectPending /\ ~effectPending' /\ modelUrl # Null)
         => revoked'[modelUrl] = revoked[modelUrl] + 1
      /\ \A r \in Runs :
           (r < numRuns /\ r \notin created /\ r \in created')
           => revoked'[r] = 1
      /\ Cardinality(Unreleased') <= 1 ]_vars

(***************************************************************************)
(* C8: while the requested modelId is null the viewer shows nothing: no    *)
(* model, no metadata, no spinner, no error, whatever the runs in flight   *)
(* have written to its state.                                              *)
(***************************************************************************)
C8_IdleAfterNull ==
  (mounted /\ modelId = Null)
  => /\ View = "Idle"
     /\ ~ShownSpinner
     /\ ShownError = NoError
     /\ ShownUrl = Null
     /\ ShownInfo = Null

\* A run completed after request(null) and wrote its URL into the state.
C8_Witness ==
  mounted /\ modelId = Null /\ ~effectPending /\ modelUrl # Null

(***************************************************************************)
(* C9: every select call with a non-null id made while Loaded, Error or    *)
(* Idle starts a fetchModel run as soon as the effects are flushed.        *)
(***************************************************************************)
C9_EveryRequestStartsLoad ==
  unservedCall => effectPending

MaxCoord == 1     \* box coordinates range over -MaxCoord..MaxCoord

Axes == 1..3
Coords == (0 - MaxCoord)..MaxCoord
Points == [Axes -> Coords]
Boxes == {b \in [min : Points, max : Points] :
            \A i \in Axes : b.min[i] <= b.max[i]}
Loaders == {"STLLoader", "OBJLoader"}

Max2(a, b) == IF a >= b THEN a ELSE b
Size(box) == [i \in Axes |-> box.max[i] - box.min[i]]
MaxDim(box) == Max2(Size(box)[1], Max2(Size(box)[2], Size(box)[3]))
Center2(box) == [i \in Axes |-> box.min[i] + box.max[i]]

\* A new THREE.Mesh or loaded object: position 0, scale 1.
Untransformed == [position2 |-> [i \in Axes |-> 0], scale |-> <<1, 1>>]

\* The scale is set whenever maxDim is not negative: divides by maxDim = 0.
NormalizeSTLUnguarded(box) ==
  [position2 |-> [i \in Axes |-> 0 - Center2(box)[i]],
   scale |-> <<2, MaxDim(box)>>]

\* STL: mesh.position.set(-center); if (maxDim > 0) mesh.scale.set(2/maxDim).
NormalizeSTL(box) ==
  [position2 |-> [i \in Axes |-> 0 - Center2(box)[i]],
   scale |-> IF MaxDim(box) > 0 THEN <<2, MaxDim(box)>>
             ELSE Untransformed.scale]

\* OBJ: obj.position.set(-center); if (maxDim > 0) obj.scale.set(2/maxDim).
NormalizeOBJ(box) ==
  [position2 |-> [i \in Axes |-> 0 - Center2(box)[i]],
   scale |-> IF MaxDim(box) > 0 THEN <<2, MaxDim(box)>>
             ELSE Untransformed.scale]

Normalize(loader, box) ==
  IF loader = "STLLoader" THEN NormalizeSTL(box) ELSE NormalizeOBJ(box)

(***************************************************************************)
(* The renderer places a vertex v of an object at position + scale * v.    *)
(* WorldCenterScaled is the centre of the transformed box multiplied by    *)
(* 2 * denominator, WorldSizeScaled its size multiplied by denominator.    *)
(***************************************************************************)
WorldCenterScaled(box, t) ==
  [i \in Axes |-> t.position2[i] * t.scale[2] + t.scale[1] * Center2(box)[i]]
WorldSizeScaled(box, t) == [i \in Axes |-> t.scale[1] * Size(box)[i]]
WorldMaxDimScaled(box, t) == t.scale[1] * MaxDim(box)

NormInit ==
  /\ nBox \in Boxes
  /\ nLoader \in Loaders
  /\ nDone = FALSE
  /\ nOut = Untransformed
  /\ nErr = "none"

\* The centering and scaling part of the success callback; it reports no
\* error.
NormalizeStep ==
  /\ ~nDone
  /\ nDone' = TRUE
  /\ nOut' = Normalize(nLoader, nBox)
  /\ UNCHANGED <<nBox, nLoader, nErr>>
  /\ UNCHANGED <<vars, modelVars, appVars, frameVars>>

NormNext == NormalizeStep

(***************************************************************************)
(* The auto-center effect of SceneSetup (ModelList.tsx 167-208) as a       *)
(* function of the bounding box of the meshes it found and of the camera   *)
(* it was given.  A camera position is origin2/2 + along * k * d, where d  *)
(* is (1,1,1) normalized and k = 2.5 / (2 tan(fov/2)), so that the         *)
(* distance (maxDim / 2) / tan(fov / 2) * 2.5 is along = maxDim.           *)
(***************************************************************************)
\* camera={{ position: [0, 0, 5], fov: 50 }}; the controls target starts
\* at the origin.
InitialCamera ==
  [position |-> [origin2 |-> <<0, 0, 10>>, along |-> 0],
   target2 |-> <<0, 0, 0>>]

\* The effect from box.getCenter on: the target is set to the center; the
\* camera is moved if maxDim > 0 and left where it is otherwise.
FrameCamera(box, cam) ==
  [target2 |-> Center2(box),
   position |-> IF MaxDim(box) > 0
                  THEN [origin2 |-> Center2(box), along |-> MaxDim(box)]
                  ELSE cam.position]

\* Camera position minus box center.
OffsetFromCenter(cam, box) ==
  [origin2 |-> [i \in Axes |-> cam.position.origin2[i] - Center2(box)[i]],
   along |-> cam.position.along]

FrameIdle ==
  /\ fBox = [min |-> [i \in Axes |-> 0], max |-> [i \in Axes |-> 0]]
  /\ fCam = InitialCamera
  /\ fDone = FALSE

FrameInit ==
  /\ fBox \in Boxes
  /\ fCam = InitialCamera
  /\ fDone = FALSE

FrameStep ==
  /\ ~fDone
  /\ fDone' = TRUE
  /\ fCam' = FrameCamera(fBox, fCam)
  /\ UNCHANGED fBox
  /\ UNCHANGED <<vars, modelVars, normVars, appVars>>

FrameNext == FrameStep

(***************************************************************************)
(* The Model component (ModelList.tsx 244-441) inside the Canvas.          *)
(*                                                                         *)
(* ModelViewer is seen through the props it passes (697-702): url and      *)
(* fileFormat change when ModelViewer's modelUrl and modelInfo change, the *)
(* Canvas is mounted and unmounted as the canvas view comes and goes.      *)
(* A blob URL is a number; the geometry behind it and whether the loader   *)
(* can read it do not change over time.  Characters are one-letter         *)
(* strings and a format is a tuple of characters.                          *)
(***************************************************************************)
NumUrls == 2      \* distinct blob URLs
NumColors == 2    \* distinct object colors
MaxLoads == 2     \* loader.load calls explored

Urls == 1..NumUrls
Colors == 1..NumColors
ViewModes == {"normal", "wireframe", "x-ray"}
DefaultColor == 1
DefaultCamera == <<"initial", Null>>

STL == <<"s", "t", "l">>
OBJ == <<"o", "b", "j">>
Formats == {STL, OBJ, <<"S", "T", "L">>, <<"O", "b", "j">>, <<"p", "l", "y">>}

\* String.prototype.toLowerCase on the letters used here.
Lower(c) ==
  CASE c = "S" -> "s" [] c = "T" -> "t" [] c = "L" -> "l"
    [] c = "O" -> "o" [] c = "B" -> "b" [] c = "J" -> "j"
    [] c = "P" -> "p" [] c = "Y" -> "y" [] c = "X" -> "x"
    [] OTHER -> c
toLowerCase(str) == [i \in DOMAIN str |-> Lower(str[i])]

\* The loader chosen by loadModel: fileFormat === 'stl', === 'obj', else.
LoaderFor(format) ==
  IF format = STL THEN "STLLoader"
  ELSE IF format = OBJ THEN "OBJLoader"
  ELSE "unsupported"

\* x-ray material without side: THREE.DoubleSide.
createMaterialXRayOneSided(mode, color) ==
  CASE mode = "wireframe" ->
         [class |-> "MeshStandardMaterial", color |-> color,
          wireframe |-> TRUE, opacityHalves |-> 2, transparent |-> FALSE,
          depthWrite |-> TRUE, doubleSided |-> FALSE]
    [] mode = "x-ray" ->
         [class |-> "MeshPhongMaterial", color |-> color,
          wireframe |-> FALSE, opacityHalves |-> 1, transparent |-> TRUE,
          depthWrite |-> FALSE, doubleSided |-> FALSE]
    [] OTHER ->
         [class |-> "MeshStandardMaterial", color |-> color,
          wireframe |-> FALSE, opacityHalves |-> 2, transparent |-> FALSE,
          depthWrite |-> TRUE, doubleSided |-> FALSE]

(***************************************************************************)
(* createMaterial(mode), with the objectColor of its closure as second     *)
(* argument.  Properties the code does not pass have the library defaults  *)
(* (wireframe false, opacity 1, transparent false, depthWrite true, front  *)
(* side).  The opacity is counted in halves: 2 is 1.0 and 1 is 0.5.        *)
(***************************************************************************)
createMaterial(mode, color) ==
  CASE mode = "wireframe" ->
         [class |-> "MeshStandardMaterial", color |-> color,
          wireframe |-> TRUE, opacityHalves |-> 2, transparent |-> FALSE,
          depthWrite |-> TRUE, doubleSided |-> FALSE]
    [] mode = "x-ray" ->
         [class |-> "MeshPhongMaterial", color |-> color,
          wireframe |-> FALSE, opacityHalves |-> 1, transparent |-> TRUE,
          depthWrite |-> FALSE, doubleSided |-> TRUE]
    [] OTHER ->
         [class |-> "MeshStandardMaterial", color |-> color,
          wireframe |-> FALSE, opacityHalves |-> 2, transparent |-> FALSE,
          depthWrite |-> TRUE, doubleSided |-> FALSE]

\* The loader can fetch and parse what is behind blob URL u: URL 1 stands
\* for a URL that is revoked or holds bytes the loader rejects.
Readable(u) == u # 1

\* Bounding box of the geometry behind blob URL u.
BoxOf(u) == [min |-> <<u, 0, 0 - u>>, max |-> <<u * u, u - 1, 0 - u>>]

\* The object a success callback adds to modelRef.current.
MeshOf(load) ==
  [url |-> load.url, loader |-> load.loader, mode |-> load.mode,
   material |-> createMaterial(load.mode, load.color),
   transform |-> Normalize(load.loader, BoxOf(load.url))]

Deactivated(ls) == [i \in DOMAIN ls |-> [ls[i] EXCEPT !.active = FALSE]]
Without(ls, i) == [j \in 1..(Len(ls) - 1) |-> IF j < i THEN ls[j] ELSE ls[j + 1]]
Recolored(ms, c) == [i \in DOMAIN ms |-> [ms[i] EXCEPT !.material.color = c]]

ModelIdle ==
  /\ canvas = FALSE
  /\ crashed = FALSE
  /\ urlProp = 1
  /\ fileFormat = STL
  /\ viewMode = "normal"
  /\ objectColor = DefaultColor
  /\ autoRotate = FALSE
  /\ model = FALSE
  /\ modelError = "none"
  /\ children = <<>>
  /\ loads = <<>>
  /\ numLoads = 0
  /\ framedOn = DefaultCamera

ModelInit ==
  /\ canvas = FALSE
  /\ crashed = FALSE
  /\ urlProp = 1
  /\ fileFormat = STL
  /\ viewMode = "normal"
  /\ objectColor = DefaultColor
  /\ autoRotate = FALSE
  /\ model = FALSE
  /\ modelError = "none"
  /\ children = <<>>
  /\ loads = <<>>
  /\ numLoads = 0
  /\ framedOn = DefaultCamera

NormIdle ==
  /\ nBox = [min |-> [i \in Axes |-> 0], max |-> [i \in Axes |-> 0]]
  /\ nLoader = "STLLoader"
  /\ nDone = FALSE
  /\ nOut = Untransformed
  /\ nErr = "none"

(***************************************************************************)
(* The load effect of Model, deps [url, fileFormat, viewMode]: the cleanup *)
(* of the previous run sets its isActive to false, then loadModel calls    *)
(* loader.load, or setError for a format that is neither 'stl' nor 'obj'.  *)
(* The closure of the run holds the viewMode and, through createMaterial,  *)
(* the objectColor of the render that created it.                          *)
(***************************************************************************)
RunLoadEffect(u, f, m, c, err) ==
  IF LoaderFor(f) = "unsupported"
  THEN /\ loads' = Deactivated(loads)
       /\ numLoads' = numLoads
       /\ modelError' = "unsupported"
  ELSE /\ numLoads < MaxLoads
       /\ loads' = Append(Deactivated(loads),
                          [url |-> u, loader |-> LoaderFor(f), mode |-> m,
                           color |-> c, active |-> TRUE])
       /\ numLoads' = numLoads + 1
       /\ modelError' = err

(***************************************************************************)
(* The canvas view appears: SceneSetup and Model are mounted.  The framing *)
(* effect of SceneSetup (deps [scene, camera]) runs now, over the meshes   *)
(* the scene holds at this moment, the grid and the LoadingBox placeholder;*)
(* the load effect of Model starts the first load.                         *)
(***************************************************************************)
MountCanvas(u, f) ==
  /\ ~canvas /\ ~crashed
  /\ canvas' = TRUE
  /\ urlProp' = u
  /\ fileFormat' = f
  /\ model' = FALSE
  /\ children' = <<>>
  /\ framedOn' = <<"placeholder", Null>>
  /\ RunLoadEffect(u, f, viewMode, objectColor, "none")
  /\ UNCHANGED <<crashed, viewMode, objectColor, autoRotate>>
  /\ UNCHANGED <<vars, normVars, appVars, frameVars>>

\* The canvas view disappears; the callbacks of the loads in flight find
\* isActive false and an unmounted component, and change nothing.
UnmountCanvas ==
  /\ canvas
  /\ canvas' = FALSE
  /\ model' = FALSE
  /\ modelError' = "none"
  /\ children' = <<>>
  /\ loads' = <<>>
  /\ framedOn' = DefaultCamera
  /\ UNCHANGED <<crashed, urlProp, fileFormat, viewMode, objectColor, autoRotate,
                 numLoads>>
  /\ UNCHANGED <<vars, normVars, appVars, frameVars>>

\* ModelViewer passes another url or fileFormat to the mounted Model.
ChangeProps(u, f) ==
  /\ canvas
  /\ <<u, f>> # <<urlProp, fileFormat>>
  /\ urlProp' = u
  /\ fileFormat' = f
  /\ RunLoadEffect(u, f, viewMode, objectColor, modelError)
  /\ UNCHANGED <<canvas, crashed, viewMode, objectColor, autoRotate, model,
                 children, framedOn>>
  /\ UNCHANGED <<vars, normVars, appVars, frameVars>>

\* setViewMode whose load effect clears modelRef.current before loading.
SetViewModeClearing(m) ==
  /\ ~crashed
  /\ m # viewMode
  /\ viewMode' = m
  /\ children' = IF canvas THEN <<>> ELSE children
  /\ IF canvas
     THEN RunLoadEffect(urlProp, fileFormat, m, objectColor, modelError)
     ELSE UNCHANGED <<loads, numLoads, modelError>>
  /\ UNCHANGED <<canvas, crashed, urlProp, fileFormat, objectColor, autoRotate,
                 model, framedOn>>
  /\ UNCHANGED <<vars, normVars, appVars, frameVars>>

\* A view mode button: setViewMode(m); viewMode is a dep of the load effect.
SetViewMode(m) ==
  /\ ~crashed
  /\ m # viewMode
  /\ viewMode' = m
  /\ IF canvas
     THEN RunLoadEffect(urlProp, fileFormat, m, objectColor, modelError)
     ELSE UNCHANGED <<loads, numLoads, modelError>>
  /\ UNCHANGED <<canvas, crashed, urlProp, fileFormat, objectColor, autoRotate,
                 model, children, framedOn>>
  /\ UNCHANGED <<vars, normVars, appVars, frameVars>>

\* setObjectColor restarting the load, as if objectColor were a dep of the
\* load effect.
SetObjectColorReloading(c) ==
  /\ ~crashed
  /\ c # objectColor
  /\ objectColor' = c
  /\ children' = IF canvas THEN Recolored(children, c) ELSE children
  /\ IF canvas
     THEN RunLoadEffect(urlProp, fileFormat, viewMode, c, modelError)
     ELSE UNCHANGED <<loads, numLoads, modelError>>
  /\ UNCHANGED <<canvas, crashed, urlProp, fileFormat, viewMode, autoRotate,
                 model, framedOn>>
  /\ UNCHANGED <<vars, normVars, appVars, frameVars>>

\* The color input: setObjectColor(c); the color effect of Model sets the
\* material color of every mesh under modelRef.current.
SetObjectColor(c) ==
  /\ ~crashed
  /\ c # objectColor
  /\ objectColor' = c
  /\ children' = IF canvas THEN Recolored(children, c) ELSE children
  /\ UNCHANGED <<canvas, crashed, urlProp, fileFormat, viewMode, autoRotate,
                 model, modelError, loads, numLoads, framedOn>>
  /\ UNCHANGED <<vars, normVars, appVars, frameVars>>

\* The auto-rotate button: setAutoRotate(!autoRotate).
SetAutoRotate ==
  /\ ~crashed
  /\ autoRotate' = ~autoRotate
  /\ UNCHANGED <<canvas, crashed, urlProp, fileFormat, viewMode, objectColor,
                 model, modelError, children, loads, numLoads,
                 framedOn>>
  /\ UNCHANGED <<vars, normVars, appVars, frameVars>>

\* The success callback of a load without the isActive test.
LoadSuccessUnguarded(i) ==
  /\ i \in DOMAIN loads
  /\ Readable(loads[i].url)
  /\ loads' = Without(loads, i)
  /\ children' = <<MeshOf(loads[i])>>
  /\ model' = TRUE
  /\ UNCHANGED <<canvas, crashed, urlProp, fileFormat, viewMode, objectColor,
                 autoRotate, modelError, numLoads, framedOn>>
  /\ UNCHANGED <<vars, normVars, appVars, frameVars>>

\* The success callback of a load: nothing if the run is no longer active,
\* else the new object replaces the children of modelRef.current.
LoadSuccess(i) ==
  /\ i \in DOMAIN loads
  /\ Readable(loads[i].url)
  /\ loads' = Without(loads, i)
  /\ IF loads[i].active
     THEN /\ children' = <<MeshOf(loads[i])>>
          /\ model' = TRUE
     ELSE UNCHANGED <<children, model>>
  /\ UNCHANGED <<canvas, crashed, urlProp, fileFormat, viewMode, objectColor,
                 autoRotate, modelError, numLoads, framedOn>>
  /\ UNCHANGED <<vars, normVars, appVars, frameVars>>

\* The error callback of a load: setError, without an isActive test.
LoadError(i) ==
  /\ i \in DOMAIN loads
  /\ ~Readable(loads[i].url)
  /\ loads' = Without(loads, i)
  /\ modelError' = "load"
  /\ UNCHANGED <<canvas, crashed, urlProp, fileFormat, viewMode, objectColor,
                 autoRotate, model, children, numLoads, framedOn>>
  /\ UNCHANGED <<vars, normVars, appVars, frameVars>>

(***************************************************************************)
(* With error set, the render of Model calls one more hook (the useEffect  *)
(* inside if (error), 422-426) than the render before.  Where React        *)
(* rejects this the render throws and, no error boundary being present,    *)
(* the whole tree is unmounted; otherwise Model goes on showing the red    *)
(* box.  Both outcomes are kept.                                           *)
(***************************************************************************)
HooksError ==
  /\ canvas
  /\ modelError # "none"
  /\ crashed' = TRUE
  /\ canvas' = FALSE
  /\ model' = FALSE
  /\ children' = <<>>
  /\ loads' = <<>>
  /\ framedOn' = DefaultCamera
  /\ UNCHANGED <<urlProp, fileFormat, viewMode, objectColor, autoRotate,
                 modelError, numLoads>>
  /\ UNCHANGED <<vars, normVars, appVars, frameVars>>

ModelNext ==
  \/ \E u \in Urls, f \in Formats : MountCanvas(u, f)
  \/ UnmountCanvas
  \/ \E u \in Urls, f \in Formats : ChangeProps(u, f)
  \/ \E m \in ViewModes : SetViewMode(m)
  \/ \E c \in Colors : SetObjectColor(c)
  \/ SetAutoRotate
  \/ \E i \in 1..MaxLoads : LoadSuccess(i)
  \/ \E i \in 1..MaxLoads : LoadError(i)
  \/ HooksError

(***************************************************************************)
(* App: the model list, the active selection and the upload.               *)
(* The server is the environment: it stores ids in list order and answers  *)
(* each request ok or not ok.  An async function of App is a call record:  *)
(* a and m are activeModelId and models as its closure captured them.      *)
(***************************************************************************)
MaxModels == 2
MaxCalls == 3
MaxEvents == 2

ModelIds == 1..MaxModels

FileNames ==
  { <<"a", ".", "s", "t", "l">>,
    <<"a", ".", "O", "b", "J">>,
    <<"a", ".", "p", "l", "y">>,
    <<"s", "t", "l">>,
    <<".", "s", "t", "l", ".", "x">> }

\* e.target.files / e.dataTransfer.files: no file or the chosen one.
FileLists == {<<>>} \cup { <<f>> : f \in FileNames }

DotStl == <<".", "s", "t", "l">>
DotObj == <<".", "o", "b", "j">>

\* String.prototype.endsWith.
endsWith(str, suffix) ==
  /\ Len(str) >= Len(suffix)
  /\ \A i \in 1..Len(suffix) :
       str[Len(str) - Len(suffix) + i] = suffix[i]

OnlyStlObj == <<"Only STL and OBJ files are supported">>
UploadFailed == <<"Failed to upload model">>

Call(n, kind, pc_, a, m, id) ==
  [n |-> n, kind |-> kind, pc |-> pc_, a |-> a, m |-> m, id |-> id]

\* models.filter(model => model.id.toString() !== modelId)
filter(ms, id) == SelectSeq(ms, LAMBDA x : x # id)

InList(ms, id) == \E i \in DOMAIN ms : ms[i] = id

\* App before it is mounted: the state of the other specifications.
AppIdle ==
  /\ models = <<>>
  /\ activeModelId = Null
  /\ isUploading = FALSE
  /\ uploadError = NoError
  /\ files = <<>>
  /\ inputValue = <<>>
  /\ events = 0
  /\ server = <<>>
  /\ nextId = 1
  /\ calls = {}
  /\ numCalls = 0
  /\ posts = 0

\* App after its first commit: the mount effect has called fetchModels,
\* whose closure holds activeModelId null.
AppInit ==
  /\ models = <<>>
  /\ activeModelId = Null
  /\ isUploading = FALSE
  /\ uploadError = NoError
  /\ files = <<>>
  /\ inputValue = <<>>
  /\ events = 0
  /\ server \in {<<>>, <<1>>}
  /\ nextId = Len(server) + 1
  /\ calls = {Call(1, "list", "get", Null, <<>>, Null)}
  /\ numCalls = 1
  /\ posts = 0

\* handleFileChange without the return after the unsupported-file error.
handleFileChangeNoReturn(fs) ==
  /\ events < MaxEvents
  /\ events' = events + 1
  /\ files' = fs
  /\ UNCHANGED <<models, activeModelId, server, nextId>>
  /\ IF fs = <<>>
       THEN UNCHANGED <<isUploading, uploadError, calls, numCalls, posts>>
       ELSE /\ numCalls < MaxCalls
            /\ isUploading' = TRUE
            /\ uploadError' = NoError
            /\ numCalls' = numCalls + 1
            /\ posts' = posts + 1
            /\ calls' = calls \cup
                 {Call(numCalls + 1, "upload", "post", activeModelId,
                       models, Null)}

\* handleFileChange up to its first await: the validation and the POST.
handleFileChange(fs) ==
  /\ events < MaxEvents
  /\ events' = events + 1
  /\ files' = fs
  /\ UNCHANGED <<models, activeModelId, server, nextId>>
  /\ IF fs = <<>>
       THEN UNCHANGED <<isUploading, uploadError, calls, numCalls, posts>>
       ELSE IF /\ ~ endsWith(toLowerCase(fs[1]), DotStl)
               /\ ~ endsWith(toLowerCase(fs[1]), DotObj)
         THEN /\ uploadError' = OnlyStlObj
              /\ UNCHANGED <<isUploading, calls, numCalls, posts>>
         ELSE /\ numCalls < MaxCalls
              /\ isUploading' = TRUE
              /\ uploadError' = NoError
              /\ numCalls' = numCalls + 1
              /\ posts' = posts + 1
              /\ calls' = calls \cup
                   {Call(numCalls + 1, "upload", "post", activeModelId,
                         models, Null)}

\* The file input's change event: the input holds the chosen files.
onChange(fs) ==
  /\ inputValue' = fs
  /\ handleFileChange(fs)
  /\ UNCHANGED <<vars, modelVars, normVars, frameVars>>

\* A drop on the upload area: the handler is called if a file was dropped.
onDrop(fs) ==
  /\ fs # <<>>
  /\ UNCHANGED inputValue
  /\ handleFileChange(fs)
  /\ UNCHANGED <<vars, modelVars, normVars, frameVars>>

\* The POST is answered ok: the server has stored the model; fetchModels
\* is called and sends its GET.
PostOk(c) ==
  /\ c \in calls /\ c.kind = "upload" /\ c.pc = "post"
  /\ nextId <= MaxModels
  /\ server' = Append(server, nextId)
  /\ nextId' = nextId + 1
  /\ calls' = (calls \ {c}) \cup {[c EXCEPT !.pc = "get", !.id = nextId]}
  /\ UNCHANGED <<models, activeModelId, isUploading, uploadError, files,
                 events, numCalls, posts>>
  /\ UNCHANGED inputValue
  /\ UNCHANGED <<vars, modelVars, normVars, frameVars>>

\* The POST fails or is answered not ok: catch and finally.
PostFail(c) ==
  /\ c \in calls /\ c.kind = "upload" /\ c.pc = "post"
  /\ uploadError' = UploadFailed
  /\ isUploading' = FALSE
  /\ calls' = calls \ {c}
  /\ UNCHANGED <<models, activeModelId, files, events, server, nextId,
                 numCalls, posts>>
  /\ UNCHANGED inputValue
  /\ UNCHANGED <<vars, modelVars, normVars, frameVars>>

\* The GET of fetchModels is answered ok.  Called by the mount effect the
\* function ends here; called by handleFileChange the new model is
\* selected next, the file input is cleared and finally isUploading is
\* reset.
ListOk(c) ==
  /\ c \in calls /\ c.pc = "get"
  /\ models' = server
  /\ activeModelId' =
       IF c.kind = "upload" THEN c.id
       ELSE IF Len(server) > 0 /\ c.a = Null THEN server[1]
       ELSE activeModelId
  /\ isUploading' = IF c.kind = "upload" THEN FALSE ELSE isUploading
  /\ inputValue' = IF c.kind = "upload" THEN <<>> ELSE inputValue
  /\ calls' = calls \ {c}
  /\ UNCHANGED <<uploadError, files, events, server, nextId, numCalls, posts>>
  /\ UNCHANGED <<vars, modelVars, normVars, frameVars>>

\* The GET of fetchModels fails and fetchModels lets the error through to
\* the catch of handleFileChange.
ListFailRethrows(c) ==
  /\ c \in calls /\ c.pc = "get"
  /\ uploadError' = IF c.kind = "upload" THEN UploadFailed ELSE uploadError
  /\ isUploading' = IF c.kind = "upload" THEN FALSE ELSE isUploading
  /\ calls' = calls \ {c}
  /\ UNCHANGED <<models, activeModelId, inputValue, files, events, server,
                 nextId, numCalls, posts>>
  /\ UNCHANGED <<vars, modelVars, normVars, frameVars>>

\* The GET of fetchModels fails: fetchModels logs it and returns.
ListFail(c) ==
  /\ c \in calls /\ c.pc = "get"
  /\ activeModelId' = IF c.kind = "upload" THEN c.id ELSE activeModelId
  /\ isUploading' = IF c.kind = "upload" THEN FALSE ELSE isUploading
  /\ inputValue' = IF c.kind = "upload" THEN <<>> ELSE inputValue
  /\ calls' = calls \ {c}
  /\ UNCHANGED <<models, uploadError, files, events, server, nextId,
                 numCalls, posts>>
  /\ UNCHANGED <<vars, modelVars, normVars, frameVars>>

\* A click on a row of the list.
handleModelSelect(id) ==
  /\ InList(models, id)
  /\ activeModelId' = id
  /\ UNCHANGED <<models, isUploading, uploadError, files, events, server,
                 nextId, calls, numCalls, posts>>
  /\ UNCHANGED inputValue
  /\ UNCHANGED <<vars, modelVars, normVars, frameVars>>

\* A click on a row's delete button: the DELETE is sent.
handleModelDelete(id) ==
  /\ InList(models, id)
  /\ numCalls < MaxCalls
  /\ numCalls' = numCalls + 1
  /\ calls' = calls \cup
       {Call(numCalls + 1, "delete", "delete", activeModelId, models, id)}
  /\ UNCHANGED <<models, activeModelId, isUploading, uploadError, files,
                 events, server, nextId, posts>>
  /\ UNCHANGED inputValue
  /\ UNCHANGED <<vars, modelVars, normVars, frameVars>>

\* The DELETE is answered ok: the server has removed the model.
DeleteOk(c) ==
  /\ c \in calls /\ c.kind = "delete"
  /\ InList(server, c.id)
  /\ server' = filter(server, c.id)
  /\ models' = filter(c.m, c.id)
  /\ activeModelId' =
       IF c.a = c.id
         THEN IF Len(filter(c.m, c.id)) > 0 THEN filter(c.m, c.id)[1]
              ELSE Null
         ELSE activeModelId
  /\ calls' = calls \ {c}
  /\ UNCHANGED <<isUploading, uploadError, files, events, nextId, numCalls,
                 posts>>
  /\ UNCHANGED inputValue
  /\ UNCHANGED <<vars, modelVars, normVars, frameVars>>

\* The DELETE fails or is answered not ok.
DeleteFail(c) ==
  /\ c \in calls /\ c.kind = "delete"
  /\ calls' = calls \ {c}
  /\ UNCHANGED <<models, activeModelId, isUploading, uploadError, files,
                 events, server, nextId, numCalls, posts>>
  /\ UNCHANGED inputValue
  /\ UNCHANGED <<vars, modelVars, normVars, frameVars>>

AppNext ==
  \/ \E fs \in FileLists : onChange(fs)
  \/ \E fs \in FileLists : onDrop(fs)
  \/ \E c \in calls : PostOk(c)
  \/ \E c \in calls : PostFail(c)
  \/ \E c \in calls : ListOk(c)
  \/ \E c \in calls : ListFail(c)
  \/ \E id \in ModelIds : handleModelSelect(id)
  \/ \E id \in ModelIds : handleModelDelete(id)
  \/ \E c \in calls : DeleteOk(c)
  \/ \E c \in calls : DeleteFail(c)

(***************************************************************************)
(* The specifications: the viewer's load lifecycle, the Model component,   *)
(* the centering and scaling of one parsed geometry, App, and the camera   *)
(* framing.  Each starts the other parts in their idle state.              *)
(***************************************************************************)
ViewerStart == Init /\ ModelIdle /\ NormIdle /\ AppIdle /\ FrameIdle
ModelStart == Init /\ ModelInit /\ NormIdle /\ AppIdle /\ FrameIdle
NormStart == Init /\ ModelIdle /\ NormInit /\ AppIdle /\ FrameIdle
AppStart == Init /\ ModelIdle /\ NormIdle /\ AppInit /\ FrameIdle
FrameStart == Init /\ ModelIdle /\ NormIdle /\ AppIdle /\ FrameInit

Spec == ViewerStart /\ [][Next]_vars
SpecModel == ModelStart /\ [][ModelNext]_modelVars
SpecNorm == NormStart /\ [][NormNext]_normVars
SpecApp == AppStart /\ [][AppNext]_appVars
SpecFrame == FrameStart /\ [][FrameNext]_frameVars

(***************************************************************************)
(* Vocabulary of the properties of Model.                                  *)
(***************************************************************************)
\* The load effect runs in this step: Model is mounted, or a dep changed.
EffectRuns ==
  /\ canvas'
  /\ \/ ~canvas
     \/ <<urlProp, fileFormat, viewMode>>' # <<urlProp, fileFormat, viewMode>>
\* This step calls loader.load with the given loader.
StartsLoad(loader) ==
  /\ numLoads' = numLoads + 1
  /\ loads' # <<>>
  /\ loads'[Len(loads')].loader = loader
\* The mesh of the current url and format is shown.
Displayed ==
  /\ canvas /\ model /\ modelError = "none"
  /\ children # <<>>
  /\ children[1].url = urlProp
  /\ children[1].loader = LoaderFor(fileFormat)
\* The error callback of a load that is no longer active fires.
StaleLoadError ==
  \E i \in DOMAIN loads :
    /\ ~loads[i].active
    /\ ~Readable(loads[i].url)
    /\ loads' = Without(loads, i)
    /\ modelError' = "load"

(***************************************************************************)
(* C11: whenever the load effect runs with a file format that is 'stl' or  *)
(* 'obj' in some letter case, it starts a load with the matching loader    *)
(* (and so does not reject the format as unsupported).                     *)
(***************************************************************************)
C11_FormatCaseInsensitive ==
  [][ EffectRuns
      => /\ toLowerCase(fileFormat') = STL => StartsLoad("STLLoader")
         /\ toLowerCase(fileFormat') = OBJ => StartsLoad("OBJLoader")
    ]_modelVars

(***************************************************************************)
(* C13: a step that changes the view mode starts no load, changes no load  *)
(* in flight and leaves the model and error state of Model unchanged.      *)
(***************************************************************************)
C13_ViewModeNeverReloads ==
  [][ viewMode' # viewMode
      => /\ numLoads' = numLoads
         /\ loads' = loads
         /\ model' = model
         /\ modelError' = modelError ]_modelVars

(***************************************************************************)
(* C14: while the mesh of the current url and format is shown and these    *)
(* two props stay, every step (a view mode change, the completion of the   *)
(* loads it causes) leaves it shown with the same position and scale; the  *)
(* only exception is the error callback of a load of an earlier url.       *)
(***************************************************************************)
C14_ViewModeKeepsTransform ==
  [][ (/\ Displayed
       /\ canvas' /\ urlProp' = urlProp /\ fileFormat' = fileFormat
       /\ ~StaleLoadError)
      => /\ Displayed'
         /\ children'[1].transform = children[1].transform ]_modelVars

\* The view mode was changed after the shown mesh was built.
C14_Witness ==
  Displayed /\ children[1].mode # viewMode

(***************************************************************************)
(* C15: a step that changes objectColor changes, besides it, only the      *)
(* color of the materials under modelRef.current; a step that changes      *)
(* autoRotate changes nothing else.  No load starts, and the load state,   *)
(* the transform, the view mode and the other setting stay.                *)
(***************************************************************************)
C15_PureSetters ==
  [][ /\ objectColor' # objectColor
         => /\ UNCHANGED <<canvas, crashed, urlProp, fileFormat, viewMode,
                           autoRotate, model, modelError, loads, numLoads,
                           framedOn>>
            /\ UNCHANGED vars
            /\ Len(children') = Len(children)
            /\ \A i \in DOMAIN children :
                 /\ children'[i].transform = children[i].transform
                 /\ children'[i].url = children[i].url
                 /\ children'[i].mode = children[i].mode
                 /\ children'[i].material.color = objectColor'
      /\ autoRotate' # autoRotate
         => /\ UNCHANGED <<canvas, crashed, urlProp, fileFormat, viewMode,
                           objectColor, model, modelError, children, loads,
                           numLoads, framedOn>>
            /\ UNCHANGED vars ]_modelVars

\* Both setters were used while a mesh is shown.
C15_Witness ==
  /\ Displayed
  /\ objectColor # DefaultColor /\ autoRotate
  /\ children[1].material.color = objectColor

(***************************************************************************)
(* C16: the material of every mesh is the one the table gives for its view *)
(* mode, and a mesh is installed with the color its load was started       *)
(* with: normal is not wireframe, opaque, one-sided; wireframe is          *)
(* wireframe, opaque, one-sided; x-ray is not wireframe, half opaque,      *)
(* double-sided.                                                           *)
(***************************************************************************)
C16_Table(mode, material) ==
  /\ mode = "normal"
     => /\ ~material.wireframe /\ material.opacityHalves = 2
        /\ ~material.doubleSided
  /\ mode = "wireframe"
     => /\ material.wireframe /\ material.opacityHalves = 2
        /\ ~material.doubleSided
  /\ mode = "x-ray"
     => /\ ~material.wireframe /\ material.opacityHalves = 1
        /\ material.doubleSided

C16_MaterialOfModeAndColor ==
  [][ /\ \A i \in DOMAIN children' :
           C16_Table(children'[i].mode, children'[i].material)
      /\ (children' # children /\ Len(loads') < Len(loads) /\ canvas')
         => \E i \in DOMAIN loads :
              /\ loads[i].active
              /\ children'[1].mode = loads[i].mode
              /\ children'[1].material.color = loads[i].color ]_modelVars

\* An x-ray mesh of a color other than the default is shown.
C16_Witness ==
  /\ Displayed
  /\ children[1].mode = "x-ray"
  /\ children[1].material.color # DefaultColor

(***************************************************************************)
(* C17: whenever a loaded mesh is shown, the camera framing was computed   *)
(* from that mesh.                                                         *)
(***************************************************************************)
C17_FramedOnLoadedModel ==
  Displayed => framedOn = <<"model", children[1].url>>

(***************************************************************************)
(* C18: after the callback has positioned and scaled the object, the       *)
(* bounding box as the renderer places it is centered at the origin.       *)
(***************************************************************************)
C18_CenteredAtOrigin ==
  nDone => \A i \in Axes : WorldCenterScaled(nBox, nOut)[i] = 0

(***************************************************************************)
(* C19: the scale is 2/maxDim and the placed box has largest dimension 2   *)
(* when maxDim > 0; the scale is 1 when maxDim = 0; the denominator is     *)
(* never 0 and no error is reported.                                       *)
(***************************************************************************)
C19_ScaleFitsOrStays ==
  nDone
  => /\ nOut.scale[2] > 0
     /\ MaxDim(nBox) > 0
        => /\ nOut.scale = <<2, MaxDim(nBox)>>
           /\ WorldMaxDimScaled(nBox, nOut) = 2 * nOut.scale[2]
     /\ MaxDim(nBox) = 0 => nOut.scale = <<1, 1>>
     /\ nErr = "none"

\* A single-point geometry went through the STL callback.
C19_Witness ==
  nDone /\ MaxDim(nBox) = 0 /\ nLoader = "STLLoader"

(***************************************************************************)
(* The file_format the model store returns in the details of model id      *)
(* (modelData.file_format): model 1 is an STL file, model 2 is of a format *)
(* no loader exists for, the others are OBJ files.                         *)
(***************************************************************************)
FormatOf(id) ==
  IF id = 1 THEN STL
  ELSE IF id = 2 THEN <<"p", "l", "y">>
  ELSE OBJ

(***************************************************************************)
(* C12: a run for a model whose declared format is neither stl nor obj     *)
(* sends no download request (its only request is the details request)     *)
(* and creates no object URL.                                              *)
(***************************************************************************)
C12_UnsupportedFailsFast ==
  \A r \in Runs :
    (/\ runId[r] # Null
     /\ LoaderFor(toLowerCase(FormatOf(runId[r]))) = "unsupported")
    => /\ issued[r] <= 1
       /\ r \notin created


(***************************************************************************)
(* C20: a change or drop event whose first file has a name that, lowered,  *)
(* ends neither in .stl nor in .obj sets uploadError to the                *)
(* unsupported-file message, sends no POST and starts no call, and leaves  *)
(* isUploading, models and activeModelId as they were.                     *)
(***************************************************************************)
C20_OtherFilesRejected ==
  [][ (/\ events' # events
       /\ files' # <<>>
       /\ ~ endsWith(toLowerCase(files'[1]), DotStl)
       /\ ~ endsWith(toLowerCase(files'[1]), DotObj))
      => /\ uploadError' = OnlyStlObj
         /\ posts' = posts
         /\ calls' = calls
         /\ UNCHANGED <<isUploading, models, activeModelId, server>> ]_appVars

\* A file was refused while an upload was under way and a model selected.
C20_Witness ==
  /\ events = MaxEvents
  /\ files # <<>>
  /\ ~ endsWith(toLowerCase(files[1]), DotStl)
  /\ ~ endsWith(toLowerCase(files[1]), DotObj)
  /\ uploadError = OnlyStlObj
  /\ isUploading
  /\ posts = 1
  /\ activeModelId # Null

(***************************************************************************)
(* C21: the object URL the rendered output hands to Model (modelUrl while  *)
(* the canvas is shown) has never been revoked.                            *)
(***************************************************************************)
C21_NoUseAfterRelease ==
  ShownUrl # Null => revoked[ShownUrl] = 0

(***************************************************************************)
(* C22: whenever Model shows a loaded mesh, the color of the mesh's        *)
(* material is the current objectColor.                                    *)
(***************************************************************************)
C22_MeshHasCurrentColor ==
  (canvas /\ model /\ modelError = "none" /\ children # <<>>)
  => children[1].material.color = objectColor

(***************************************************************************)
(* C23: the success callback of a load that was superseded leaves the      *)
(* children of modelRef.current and the model state as they were; while    *)
(* Model stays mounted, model is set and a mesh is put under               *)
(* modelRef.current only by the success callback of the load started       *)
(* last, and the mesh is the one built from that load.                     *)
(***************************************************************************)
C23_StaleSuccessIgnored ==
  [][ (canvas /\ canvas')
      => /\ \A i \in DOMAIN loads :
              (/\ ~loads[i].active
               /\ Readable(loads[i].url)
               /\ loads' = Without(loads, i))
              => UNCHANGED <<children, model>>
         /\ (\/ model' # model
             \/ (children' # children /\ objectColor' = objectColor))
            => /\ loads # <<>>
               /\ loads[Len(loads)].active
               /\ Readable(loads[Len(loads)].url)
               /\ loads' = Without(loads, Len(loads))
               /\ children' = <<MeshOf(loads[Len(loads)])>>
               /\ model' ]_modelVars

\* Two loads were started while Model stayed mounted: the later one has
\* installed its mesh, the superseded one has not answered yet.
C23_Witness ==
  /\ canvas /\ numLoads = 2 /\ Len(loads) = 1
  /\ viewMode # "normal"
  /\ loads[1].mode = "normal" /\ ~loads[1].active
  /\ model /\ children # <<>> /\ children[1].mode = viewMode

\* No request of App is under way.
Quiescent == calls = {}

\* The DELETE of model id was answered ok: the server gave the id out and
\* no longer stores it (ids are not given out twice).
Deleted(id) == id < nextId /\ ~InList(server, id)

\* Call c finishes in this step.
CallFinishes(c) == c \in calls /\ calls' = calls \ {c}

(***************************************************************************)
(* C24: when no request of App is under way, activeModelId is null or the  *)
(* id of a model in the models list, and the models list holds no model    *)
(* whose deletion succeeded.                                               *)
(***************************************************************************)
C24_SelectionInList ==
  Quiescent
  => /\ activeModelId = Null \/ InList(models, activeModelId)
     /\ \A id \in ModelIds : Deleted(id) => ~InList(models, id)

(***************************************************************************)
(* C25: a step in which a list fetch completes while a model is selected   *)
(* leaves activeModelId as it was (after the list fetch of an upload the   *)
(* handler then selects the uploaded model).                               *)
(***************************************************************************)
C25_AutoSelectOnlyIfNone ==
  [][ \A c \in calls :
        (CallFinishes(c) /\ c.pc = "get" /\ activeModelId # Null)
        => activeModelId' =
             IF c.kind = "upload" THEN c.id ELSE activeModelId ]_appVars

(***************************************************************************)
(* C26: the step in which an upload finishes after its POST was answered   *)
(* ok ends with the uploaded model selected and isUploading false; the     *)
(* step in which it finishes because the POST failed leaves activeModelId  *)
(* as it was and ends with uploadError set and isUploading false.          *)
(***************************************************************************)
C26_UploadOutcome ==
  [][ \A c \in calls :
        (CallFinishes(c) /\ c.kind = "upload")
        => IF c.pc = "get"
             THEN /\ activeModelId' = c.id
                  /\ ~isUploading'
             ELSE /\ activeModelId' = activeModelId
                  /\ uploadError' # NoError
                  /\ ~isUploading' ]_appVars

\* One file was accepted, its POST was answered ok and its handler has
\* finished: the server holds the new model and the model is selected.
C26_Witness ==
  /\ posts = 1
  /\ \A c \in calls : c.kind # "upload"
  /\ uploadError = NoError
  /\ ~isUploading
  /\ nextId > 1 /\ InList(server, nextId - 1)
  /\ activeModelId = nextId - 1
  /\ ~InList(models, activeModelId)

(***************************************************************************)
(* C27: the step in which a DELETE fails changes neither models nor        *)
(* activeModelId; the step in which it succeeds for the model that is      *)
(* selected moves the selection to the first model of the remaining list,  *)
(* or to null if the list is empty.                                        *)
(***************************************************************************)
C27_DeleteOutcome ==
  [][ \A c \in calls :
        (CallFinishes(c) /\ c.kind = "delete")
        => /\ server' = server => UNCHANGED <<models, activeModelId>>
           /\ (server' # server /\ activeModelId = c.id)
              => activeModelId' =
                   IF models' # <<>> THEN models'[1] ELSE Null ]_appVars

=============================================================================
